---- MODULE Spec2Model ----
(***************************************************************************)
(* The Lox scanner of src/src/main.rs (struct Scanner, lines 45-229).      *)
(*                                                                         *)
(* The source buffer is a sequence of bytes.  A byte is written as a       *)
(* one-character string; the two bytes of a multi-byte UTF-8 character are *)
(* written "0xC3" and "0xA9".  Scanner::scan is followed loop iteration by *)
(* loop iteration: pc names the loop the scanner is in.  advances counts   *)
(* the calls of Scanner::advance that returned a byte, and returned keeps  *)
(* what earlier scanners of the same source returned.                      *)
(***************************************************************************)
EXTENDS Integers, Sequences, FiniteSets, TLC

VARIABLES src, start, curr, line, errors, tokens, pc, peeked, advances, returned

vars == <<src, start, curr, line, errors, tokens, pc, peeked, advances, returned>>

\* ------------------------------------------------------------------ bounds

\* Longest source over the whole byte alphabet.
MaxLen == 2

\* Longest source over the core alphabet.
MaxCoreLen == 5

\* ------------------------------------------------------------------- bytes

Digits == {"0", "1", "2"}

Letters == {"a", "o", "r", "_"}

\* Bytes with a meaning of their own in the match of Scanner::scan.
PunctBytes == {"(", ")", "{", "}", ",", ".", "-", "+", ";", "*"}

OperatorBytes == {"!", "=", "<", ">"}

Whitespace == {" ", "\r", "\t"}

\* Bytes no arm of the match names, other than the letters.
OtherBytes == {"@", "0xC3", "0xA9"}

Bytes ==
    PunctBytes \cup OperatorBytes \cup Whitespace \cup Digits \cup Letters
        \cup OtherBytes \cup {"/", "\n", "\""}

\* The bytes the longer sources are made of: one of each kind the scanner
\* looks ahead for or loops over.
CoreBytes == {"1", ".", "/", "\n", "\"", "=", "@"}

SeqsUpTo(S, n) == UNION {[1..k -> S] : k \in 0..n}

Sources == SeqsUpTo(Bytes, MaxLen) \cup SeqsUpTo(CoreBytes, MaxCoreLen)

\* Option<u8>::None.
None == "None"

is_ascii_digit(b) == b \in Digits

\* --------------------------------------------------------------- TokenType

Simple(tag) == [tag |-> tag]

Str(s) == [tag |-> "Str", str |-> s]

Number(v) == [tag |-> "Number", num |-> v]

\* PunctKind with the kinds of '-' and '+' exchanged.
PunctKindSwapped ==
    [b \in PunctBytes |->
        CASE b = "(" -> "LParen"
          [] b = ")" -> "RParen"
          [] b = "{" -> "LBrace"
          [] b = "}" -> "RBrace"
          [] b = "," -> "Comma"
          [] b = "." -> "Dot"
          [] b = "-" -> "Plus"
          [] b = "+" -> "Minus"
          [] b = ";" -> "Semicolon"
          [] b = "*" -> "Star"]

PunctKind ==
    [b \in PunctBytes |->
        CASE b = "(" -> "LParen"
          [] b = ")" -> "RParen"
          [] b = "{" -> "LBrace"
          [] b = "}" -> "RBrace"
          [] b = "," -> "Comma"
          [] b = "." -> "Dot"
          [] b = "-" -> "Minus"
          [] b = "+" -> "Plus"
          [] b = ";" -> "Semicolon"
          [] b = "*" -> "Star"]

\* The kind without and with a following '='.
OperatorKind ==
    [b \in OperatorBytes |->
        CASE b = "!" -> [one |-> "Bang", two |-> "BangEqual"]
          [] b = "=" -> [one |-> "Equal", two |-> "EqualEqual"]
          [] b = "<" -> [one |-> "Less", two |-> "LessEqual"]
          [] b = ">" -> [one |-> "Greater", two |-> "GreaterEqual"]]

\* ------------------------------------------------------------ str::parse

RECURSIVE DigitsValue(_)
DigitsValue(s) ==
    IF s = <<>> THEN 0
    ELSE 10 * DigitsValue(SubSeq(s, 1, Len(s) - 1))
            + (CHOOSE d \in 0..9 : ToString(d) = s[Len(s)])

RECURSIVE Normalise(_)
Normalise(v) ==
    IF v.scale > 0 /\ v.mant % 10 = 0
    THEN Normalise([mant |-> v.mant \div 10, scale |-> v.scale - 1])
    ELSE v

\* <f64 as FromStr>::from_str on a slice of sign, digits and '.': Ok with the
\* decimal value mant / 10^scale, or Err.  Short decimals that differ in
\* value parse to different f64 values, so the normalised decimal stands for
\* the f64.
ParseF64(s) ==
    LET signed == s # <<>> /\ s[1] \in {"+", "-"}
        body == IF signed THEN Tail(s) ELSE s
        dots == {i \in DOMAIN body : body[i] = "."}
        wellformed ==
            /\ \A i \in DOMAIN body : body[i] = "." \/ is_ascii_digit(body[i])
            /\ Cardinality(dots) <= 1
            /\ \E i \in DOMAIN body : is_ascii_digit(body[i])
        dot == IF dots = {} THEN Len(body) + 1 ELSE CHOOSE i \in dots : TRUE
        int == SubSeq(body, 1, dot - 1)
        frac == SubSeq(body, dot + 1, Len(body))
        v == Normalise([mant |-> DigitsValue(int \o frac), scale |-> Len(frac)])
    IN  IF wellformed
        THEN [ok |-> TRUE,
              val |-> [mant |-> v.mant, scale |-> v.scale,
                       neg |-> signed /\ s[1] = "-"]]
        ELSE [ok |-> FALSE]

\* ------------------------------------------------------- Scanner's helpers

\* Scanner::peek and Scanner::peek_next with the cursor at offset c.
peek(c) == IF c < Len(src) THEN src[c + 1] ELSE None

peek_next(c) == IF c + 1 < Len(src) THEN src[c + 2] ELSE None

\* advance_if_match comparing with a byte that never occurs.
advance_if_match_never(c, expected) == [matched |-> FALSE, curr |-> c]

\* Scanner::advance_if_match with the cursor at offset c: whether it matched
\* and the cursor afterwards.
advance_if_match(c, expected) ==
    IF peek(c) = expected
    THEN [matched |-> TRUE, curr |-> c + 1]
    ELSE [matched |-> FALSE, curr |-> c]

\* make_token with the line of the lexeme's first byte.
make_token_first_line(typ, s, c, l) ==
    [typ |-> typ, lexeme |-> SubSeq(src, s + 1, c), off |-> s,
     line |-> 1 + Cardinality({i \in 1..s : src[i] = "\n"})]

\* make_token slicing from the start of the buffer.
make_token_from_zero(typ, s, c, l) ==
    [typ |-> typ, lexeme |-> SubSeq(src, 1, c), off |-> s, line |-> l]

\* Scanner::make_token with the fields start = s, curr = c, line = l.  A
\* &str is a pointer and a length: off is where the lexeme lies in src.
make_token(typ, s, c, l) ==
    [typ |-> typ, lexeme |-> SubSeq(src, s + 1, c), off |-> s, line |-> l]

ScanError(l, message) == [line |-> l, message |-> message]

\* The payload slice keeping the two quotes.
str_payload_quoted(s, c) == SubSeq(src, s + 1, c)

\* The payload of a string literal, &self.src[self.start + 1..self.curr - 1],
\* with the fields start = s, curr = c.
str_payload(s, c) == SubSeq(src, s + 2, c - 1)

\* The test without the look at the byte after the '.'.
frac_follows_no_lookahead(c) == peek(c) = "."

\* The test of scan_num between its two loops, with the cursor at offset c.
frac_follows(c) == peek(c) = "." /\ is_ascii_digit(peek_next(c))

\* -------------------------------------------------------------------- Init

Init ==
    /\ src \in Sources
    /\ start = 0
    /\ curr = 0
    /\ line = 1
    /\ errors = <<>>
    /\ tokens = <<>>
    /\ pc = "scan"
    /\ peeked = None
    /\ advances = 0
    /\ returned = <<>>

\* ----------------------------------------------------------- Scanner::scan

\* The byte Scanner::advance returns at the head of the while loop.
AtByte == pc = "scan" /\ curr < Len(src)

\* The '(' ... '*' arms without self.start = self.curr after them.
ScanPunctKeepStart ==
    /\ AtByte
    /\ advances' = advances + 1
    /\ src[curr + 1] \in PunctBytes
    /\ curr' = curr + 1
    /\ tokens' = Append(tokens,
                    make_token(Simple(PunctKind[src[curr + 1]]), start, curr + 1, line))
    /\ UNCHANGED <<src, returned, start, line, errors, pc, peeked>>

ScanPunct ==
    /\ AtByte
    /\ advances' = advances + 1
    /\ src[curr + 1] \in PunctBytes
    /\ curr' = curr + 1
    /\ tokens' = Append(tokens,
                    make_token(Simple(PunctKind[src[curr + 1]]), start, curr + 1, line))
    /\ start' = curr'
    /\ UNCHANGED <<src, returned, line, errors, pc, peeked>>

ScanOperator ==
    /\ AtByte
    /\ advances' = advances + 1
    /\ src[curr + 1] \in OperatorBytes
    /\ LET m == advance_if_match(curr + 1, "=")
           kind == OperatorKind[src[curr + 1]]
           typ == IF m.matched THEN kind.two ELSE kind.one
       IN  /\ curr' = m.curr
           /\ tokens' = Append(tokens, make_token(Simple(typ), start, m.curr, line))
    /\ start' = curr'
    /\ UNCHANGED <<src, returned, line, errors, pc, peeked>>

ScanSlash ==
    /\ AtByte
    /\ advances' = advances + 1
    /\ src[curr + 1] = "/"
    /\ LET m == advance_if_match(curr + 1, "/")
       IN  /\ curr' = m.curr
           /\ IF m.matched
              THEN /\ pc' = "comment_peek"
                   /\ UNCHANGED <<tokens, start>>
              ELSE /\ tokens' = Append(tokens,
                                  make_token(Simple("Slash"), start, m.curr, line))
                   /\ start' = curr'
                   /\ pc' = "scan"
    /\ UNCHANGED <<src, returned, line, errors, peeked>>

\* The comment loop evaluates self.peek() ...
CommentPeek ==
    /\ pc = "comment_peek"
    /\ peeked' = peek(curr)
    /\ pc' = "comment_match"
    /\ UNCHANGED <<src, returned, start, curr, line, errors, tokens, advances>>

\* ... and matches on it: an empty arm for a byte other than '\n', which goes
\* round the loop again, and break otherwise.
CommentMatch ==
    /\ pc = "comment_match"
    /\ peeked' = None
    /\ IF peeked # None /\ peeked # "\n"
       THEN /\ pc' = "comment_peek"
            /\ UNCHANGED start
       ELSE /\ pc' = "scan"
            /\ start' = curr
    /\ UNCHANGED <<src, returned, curr, line, errors, tokens, advances>>

ScanWhitespace ==
    /\ AtByte
    /\ advances' = advances + 1
    /\ src[curr + 1] \in Whitespace
    /\ curr' = curr + 1
    /\ start' = curr'
    /\ UNCHANGED <<src, returned, line, errors, tokens, pc, peeked>>

\* The '\n' arm without the increment of line.
ScanNewlineNoLine ==
    /\ AtByte
    /\ advances' = advances + 1
    /\ src[curr + 1] = "\n"
    /\ curr' = curr + 1
    /\ start' = curr'
    /\ UNCHANGED <<src, returned, line, errors, tokens, pc, peeked>>

ScanNewline ==
    /\ AtByte
    /\ advances' = advances + 1
    /\ src[curr + 1] = "\n"
    /\ curr' = curr + 1
    /\ line' = line + 1
    /\ start' = curr'
    /\ UNCHANGED <<src, returned, errors, tokens, pc, peeked>>

ScanQuote ==
    /\ AtByte
    /\ advances' = advances + 1
    /\ src[curr + 1] = "\""
    /\ curr' = curr + 1
    /\ pc' = "scan_str"
    /\ UNCHANGED <<src, returned, start, line, errors, tokens, peeked>>

ScanDigit ==
    /\ AtByte
    /\ advances' = advances + 1
    /\ is_ascii_digit(src[curr + 1])
    /\ curr' = curr + 1
    /\ pc' = "scan_num"
    /\ UNCHANGED <<src, returned, start, line, errors, tokens, peeked>>

\* The default arm reporting a run of bytes once.
ScanUnexpectedPerRun ==
    /\ AtByte
    /\ advances' = advances + 1
    /\ src[curr + 1] \notin
           PunctBytes \cup OperatorBytes \cup Whitespace \cup Digits
               \cup {"/", "\n", "\""}
    /\ curr' = curr + 1
    /\ errors' = IF curr > 0 /\ src[curr] = src[curr + 1]
                 THEN errors
                 ELSE Append(errors, ScanError(line, "Unexpected character."))
    /\ start' = curr'
    /\ UNCHANGED <<src, returned, line, tokens, pc, peeked>>

ScanUnexpected ==
    /\ AtByte
    /\ advances' = advances + 1
    /\ src[curr + 1] \notin
           PunctBytes \cup OperatorBytes \cup Whitespace \cup Digits
               \cup {"/", "\n", "\""}
    /\ curr' = curr + 1
    /\ errors' = Append(errors, ScanError(line, "Unexpected character."))
    /\ start' = curr'
    /\ UNCHANGED <<src, returned, line, tokens, pc, peeked>>

\* Scanner::advance returns None: the loop ends and scan returns.
ScanEof ==
    /\ pc = "scan"
    /\ curr >= Len(src)
    /\ tokens' = Append(tokens, make_token(Simple("Eof"), start, curr, line))
    /\ pc' = "done"
    /\ UNCHANGED <<src, returned, start, curr, line, errors, peeked, advances>>

\* ------------------------------------------------------- Scanner::scan_str

\* The None arm emitting the text read so far as a String token.
StrUnterminatedPartial ==
    /\ errors' = Append(errors, ScanError(line, "Unterminated string."))
    /\ tokens' = Append(tokens,
                    make_token(Str(SubSeq(src, start + 2, curr)), start, curr, line))
    /\ start' = curr
    /\ pc' = "scan"
    /\ UNCHANGED <<curr, line, advances>>

\* The None arm leaving start one past the cursor.
StrUnterminatedSkip ==
    /\ errors' = Append(errors, ScanError(line, "Unterminated string."))
    /\ start' = curr + 1
    /\ pc' = "scan"
    /\ UNCHANGED <<curr, line, tokens, advances>>

\* The None arm of scan_str: the error, and scan's iteration ends with no
\* token.
StrUnterminated ==
    /\ errors' = Append(errors, ScanError(line, "Unterminated string."))
    /\ start' = curr
    /\ pc' = "scan"
    /\ UNCHANGED <<curr, line, tokens, advances>>

\* One iteration of the loop of scan_str; when it breaks, the iteration of
\* scan's loop ends with self.start = self.curr.
ScanStr ==
    /\ pc = "scan_str"
    /\ IF curr >= Len(src)
       THEN StrUnterminated
       ELSE /\ curr' = curr + 1
            /\ advances' = advances + 1
            /\ CASE src[curr + 1] = "\n" ->
                      /\ line' = line + 1
                      /\ UNCHANGED <<start, tokens, pc>>
                 [] src[curr + 1] = "\"" ->
                      /\ tokens' = Append(tokens,
                             make_token(Str(str_payload(start, curr')),
                                        start, curr', line))
                      /\ start' = curr'
                      /\ pc' = "scan"
                      /\ UNCHANGED line
                 [] OTHER -> UNCHANGED <<start, line, tokens, pc>>
            /\ UNCHANGED errors
    /\ UNCHANGED <<src, returned, peeked>>

\* ------------------------------------------------------- Scanner::scan_num

\* The end of scan_num: the parse of the slice, a Number token unless the
\* parse fails, and the end of the iteration of scan's loop.
NumberEnd ==
    /\ LET r == ParseF64(SubSeq(src, start + 1, curr))
       IN  tokens' = IF r.ok
                     THEN Append(tokens, make_token(Number(r.val), start, curr, line))
                     ELSE tokens
    /\ start' = curr
    /\ pc' = "scan"
    /\ UNCHANGED <<curr, advances>>

\* One iteration of the first loop of scan_num; when it breaks, the test for
\* '.' and a digit after it.
ScanNum ==
    /\ pc = "scan_num"
    /\ IF is_ascii_digit(peek(curr))
       THEN /\ curr' = curr + 1
            /\ advances' = advances + 1
            /\ UNCHANGED <<start, tokens, pc>>
       ELSE IF frac_follows(curr)
            THEN /\ curr' = curr + 1
                 /\ advances' = advances + 1
                 /\ pc' = "scan_frac"
                 /\ UNCHANGED <<start, tokens>>
            ELSE NumberEnd
    /\ UNCHANGED <<src, returned, line, errors, peeked>>

\* The second loop peeking at a digit without advancing.
ScanFracPeekOnly ==
    /\ pc = "scan_frac"
    /\ IF is_ascii_digit(peek(curr))
       THEN UNCHANGED <<curr, advances, start, tokens, pc>>
       ELSE NumberEnd
    /\ UNCHANGED <<src, returned, line, errors, peeked>>

\* One iteration of the second loop of scan_num.
ScanFrac ==
    /\ pc = "scan_frac"
    /\ IF is_ascii_digit(peek(curr))
       THEN /\ curr' = curr + 1
            /\ advances' = advances + 1
            /\ UNCHANGED <<start, tokens, pc>>
       ELSE NumberEnd
    /\ UNCHANGED <<src, returned, line, errors, peeked>>

\* -------------------------------------------------------------------- Next

Next ==
    \/ ScanPunct
    \/ ScanOperator
    \/ ScanSlash
    \/ CommentPeek
    \/ CommentMatch
    \/ ScanWhitespace
    \/ ScanNewline
    \/ ScanQuote
    \/ ScanDigit
    \/ ScanUnexpected
    \/ ScanEof
    \/ ScanStr
    \/ ScanNum
    \/ ScanFrac

Spec == Init /\ [][Next]_vars

\* The scanner is one sequential computation: it takes its next step
\* whenever it has one.
FairSpec == Spec /\ WF_vars(Next)

\* ---------------------------------------------------------------- run twice

\* The second scanner appending to the error list of the first.
SecondScannerSharedErrors ==
    /\ pc = "done"
    /\ returned = <<>>
    /\ returned' = Append(returned, [tokens |-> tokens, errors |-> errors])
    /\ start' = 0
    /\ curr' = 0
    /\ line' = 1
    /\ tokens' = <<>>
    /\ pc' = "scan"
    /\ advances' = 0
    /\ UNCHANGED <<src, peeked, errors>>

\* run is called again on the same source after the first scanner returned:
\* Scanner::new builds a second scanner, and scan starts with no tokens.
SecondScanner ==
    /\ pc = "done"
    /\ returned = <<>>
    /\ returned' = Append(returned, [tokens |-> tokens, errors |-> errors])
    /\ start' = 0
    /\ curr' = 0
    /\ line' = 1
    /\ errors' = <<>>
    /\ tokens' = <<>>
    /\ pc' = "scan"
    /\ advances' = 0
    /\ UNCHANGED <<src, peeked>>

NextTwice == Next \/ SecondScanner

TwoScansSpec == Init /\ [][NextTwice]_vars

\* ------------------------------------------------------------------ claims

Last(s) == s[Len(s)]

\* The number of '\n' bytes in src[lo..hi), offsets counted from 0.
NewlinesIn(lo, hi) == Cardinality({i \in (lo + 1)..hi : src[i] = "\n"})

\* The offset just after token t's lexeme.
EndOf(t) == t.off + Len(t.lexeme)

\* C1: from the initial state every scan reaches end of input and returns:
\* whatever the source, the scanner is eventually done.
C1_ScanCompletes == <>(pc = "done")

\* C2: the token sequence scan returns ends with an Eof token whose lexeme is
\* empty, and no other token of the sequence, nor any token pushed before scan
\* returns, is an Eof token.
C2_EofLastAndOnly ==
    /\ pc = "done" =>
          /\ tokens # <<>>
          /\ Last(tokens).typ = Simple("Eof")
          /\ Last(tokens).lexeme = <<>>
          /\ \A i \in 1..(Len(tokens) - 1) : tokens[i].typ.tag # "Eof"
    /\ pc # "done" => \A i \in DOMAIN tokens : tokens[i].typ.tag # "Eof"

\* scan has returned from a source that ends inside an unterminated string,
\* after at least one other token.
C2_Witness ==
    /\ pc = "done"
    /\ Len(tokens) >= 2
    /\ errors # <<>>
    /\ Last(errors).message = "Unterminated string."

\* C3: after "//" the scanner consumes every byte up to the next newline:
\* each round of the comment loop that finds a byte other than '\n' moves the
\* cursor past it, and the comment adds no token and no error.
C3_CommentConsumed ==
    [][(pc = "comment_match" /\ peeked # None /\ peeked # "\n")
          => (curr' = curr + 1 /\ tokens' = tokens /\ errors' = errors)]_vars

\* A byte of the source that starts no lexeme, identifiers included, has just
\* been handled at the top level.
AfterBadByte ==
    /\ pc = "scan"
    /\ curr > 0
    /\ start = curr
    /\ src[curr] \in OtherBytes
    /\ errors # <<>>
    /\ Last(errors).message = "Unexpected character."

\* C4: a byte that starts no lexeme appends exactly one "Unexpected
\* character." error with the current line and no token, scanning goes on
\* with the next byte, and the lexemes after it still get their tokens, up to
\* the Eof token: the scan completes.
C4_ResilientToBadByte ==
    /\ [][(AtByte /\ src[curr + 1] \in OtherBytes)
             => /\ errors' = Append(errors, ScanError(line, "Unexpected character."))
                /\ tokens' = tokens
                /\ curr' = curr + 1
                /\ pc' = "scan"]_vars
    /\ (AfterBadByte ~> (pc = "done"))

UnterminatedErrors == {i \in DOMAIN errors : errors[i].message = "Unterminated string."}

\* C5: when end of input is reached inside a string literal (which opened at
\* offset start), the scanner pushes no token, appends one "Unterminated
\* string." error whose line is the line of the opening quote plus the
\* newlines inside the literal, and the one step left pushes the Eof token
\* and returns; there is never a second such error.
C5_UnterminatedString ==
    /\ [](Cardinality(UnterminatedErrors) <= 1)
    /\ [][(pc = "scan_str" /\ curr = Len(src))
             => /\ tokens' = tokens
                /\ errors' = Append(errors,
                       ScanError(1 + NewlinesIn(0, start) + NewlinesIn(start, Len(src)),
                                 "Unterminated string."))
                /\ curr' = curr
                /\ pc' = "scan"]_vars
    /\ [][(pc = "scan" /\ errors # <<>>
              /\ Last(errors).message = "Unterminated string.")
             => /\ pc' = "done"
                /\ Len(tokens') = Len(tokens) + 1
                /\ Last(tokens').typ = Simple("Eof")
                /\ errors' = errors]_vars

\* scan has returned from the source '"' '\n': the error is on line 2 and Eof
\* is the only token.
C5_Witness ==
    /\ pc = "done"
    /\ src = <<"\"", "\n">>
    /\ errors = <<ScanError(2, "Unterminated string.")>>
    /\ Len(tokens) = 1

\* Token t is a String token for one whole literal of the source.
StrTokenOfLiteral(t) ==
    LET n == Len(t.lexeme)
    IN  /\ n >= 2
        /\ t.lexeme = SubSeq(src, t.off + 1, t.off + n)
        /\ t.lexeme[1] = "\""
        /\ t.lexeme[n] = "\""
        /\ \A k \in 2..(n - 1) : t.lexeme[k] # "\""
        /\ t.typ.str = SubSeq(t.lexeme, 2, n - 1)

\* C6: every String token's lexeme is the source slice from an opening quote
\* through the first quote after it, its payload is that slice without its
\* first and last byte, no literal gets two tokens, and the step that reads
\* the closing quote pushes exactly one String token for the literal opened
\* at offset start.
C6_StringToken ==
    /\ [](\A i \in DOMAIN tokens :
             tokens[i].typ.tag = "Str" => StrTokenOfLiteral(tokens[i]))
    /\ [](\A i, j \in DOMAIN tokens :
             (i # j /\ tokens[i].typ.tag = "Str" /\ tokens[j].typ.tag = "Str")
                 => tokens[i].off # tokens[j].off)
    /\ [][(pc = "scan_str" /\ peek(curr) = "\"")
             => /\ Len(tokens') = Len(tokens) + 1
                /\ Last(tokens').typ.tag = "Str"
                /\ Last(tokens').off = start
                /\ EndOf(Last(tokens')) = curr + 1
                /\ SubSeq(tokens', 1, Len(tokens)) = tokens
                /\ errors' = errors]_vars

\* scan has returned a String token whose payload is a '/' and a newline.
C6_Witness ==
    /\ pc = "done"
    /\ \E i \in DOMAIN tokens :
          tokens[i].typ.tag = "Str" /\ tokens[i].typ.str = <<"/", "\n">>

\* l is digit+ or digit+ '.' digit+.
NumberLexemeForm(l) ==
    LET dots == {k \in DOMAIN l : l[k] = "."}
    IN  /\ l # <<>>
        /\ \A k \in DOMAIN l : l[k] = "." \/ l[k] \in {"0", "1", "2"}
        /\ Cardinality(dots) <= 1
        /\ \A k \in dots : 1 < k /\ k < Len(l)

HasDigitAt(o) == o < Len(src) /\ src[o + 1] \in {"0", "1", "2"}

\* C7: every Number token's lexeme is a source slice of the form digit+ or
\* digit+ '.' digit+ that starts at the first digit of a run and is maximal:
\* no digit follows it, and a '.' follows it only when the lexeme already has
\* its '.' or no digit comes after that '.'; such a '.' is the very next
\* token, a Dot, as soon as the scanner has passed it.
C7_NumberLexeme ==
    \A i \in DOMAIN tokens :
        tokens[i].typ.tag = "Number" =>
            LET t == tokens[i]
                e == EndOf(t)
            IN  /\ NumberLexemeForm(t.lexeme)
                /\ t.lexeme = SubSeq(src, t.off + 1, e)
                /\ t.off = 0 \/ ~HasDigitAt(t.off - 1)
                /\ ~HasDigitAt(e)
                /\ (e < Len(src) /\ src[e + 1] = ".") =>
                      /\ "." \in {t.lexeme[k] : k \in DOMAIN t.lexeme}
                            \/ ~HasDigitAt(e + 1)
                      /\ (pc = "done" \/ curr > e) =>
                            /\ i < Len(tokens)
                            /\ tokens[i + 1].typ = Simple("Dot")
                            /\ tokens[i + 1].lexeme = <<".">>
                            /\ tokens[i + 1].off = e

\* scan has returned Number "1.1", Dot, Number "1", Eof from "1.1.1".
C7_Witness ==
    /\ pc = "done"
    /\ src = <<"1", ".", "1", ".", "1">>
    /\ Len(tokens) = 4
    /\ tokens[1].lexeme = <<"1", ".", "1">>
    /\ tokens[2].typ = Simple("Dot")
    /\ tokens[3].typ.tag = "Number"

\* The operator bytes with their one-character and two-character kinds.
C8_Kinds ==
    {<<"!", "Bang", "BangEqual">>, <<"=", "Equal", "EqualEqual">>,
     <<"<", "Less", "LessEqual">>, <<">", "Greater", "GreaterEqual">>}

KindsOf(ts) == [i \in DOMAIN ts |-> ts[i].typ.tag]

\* C8: a token of a one-character operator kind has that character as its
\* lexeme and is not followed by '='; a token of a two-character kind has the
\* character and '=' as its lexeme; an operator character alone, with one '='
\* and with two '=' after it scans as one token of the one-character kind,
\* one of the two-character kind, and that one followed by Equal.
C8_OperatorMunch ==
    \A k \in C8_Kinds :
        /\ \A i \in DOMAIN tokens :
              LET t == tokens[i]
              IN  /\ t.typ.tag = k[2] =>
                        /\ t.lexeme = <<k[1]>>
                        /\ src[t.off + 1] = k[1]
                        /\ t.off + 1 = Len(src) \/ src[t.off + 2] # "="
                  /\ t.typ.tag = k[3] =>
                        /\ t.lexeme = <<k[1], "=">>
                        /\ SubSeq(src, t.off + 1, t.off + 2) = t.lexeme
        /\ pc = "done" =>
              /\ src = <<k[1]>> => KindsOf(tokens) = <<k[2], "Eof">>
              /\ src = <<k[1], "=">> => KindsOf(tokens) = <<k[3], "Eof">>
              /\ src = <<k[1], "=", "=">> => KindsOf(tokens) = <<k[3], "Equal", "Eof">>

\* scan has returned EqualEqual, Equal, Eof from "===".
C8_Witness ==
    /\ pc = "done"
    /\ src = <<"=", "=", "=">>
    /\ Len(tokens) = 3
    /\ tokens[1].lexeme = <<"=", "=">>

\* The reserved words and their kinds.
ReservedWords ==
    {<<<<"a", "n", "d">>, "And">>, <<<<"c", "l", "a", "s", "s">>, "Class">>,
     <<<<"e", "l", "s", "e">>, "Else">>, <<<<"f", "a", "l", "s", "e">>, "False">>,
     <<<<"f", "u", "n">>, "Fun">>, <<<<"f", "o", "r">>, "For">>,
     <<<<"i", "f">>, "If">>, <<<<"n", "i", "l">>, "Nil">>,
     <<<<"o", "r">>, "Or">>, <<<<"p", "r", "i", "n", "t">>, "Print">>,
     <<<<"r", "e", "t", "u", "r", "n">>, "Return">>,
     <<<<"s", "u", "p", "e", "r">>, "Super">>, <<<<"t", "h", "i", "s">>, "This">>,
     <<<<"t", "r", "u", "e">>, "True">>, <<<<"v", "a", "r">>, "Var">>,
     <<<<"w", "h", "i", "l", "e">>, "While">>}

\* The kind of an identifier lexeme.
IdentKind(l) ==
    IF \E w \in ReservedWords : w[1] = l
    THEN (CHOOSE w \in ReservedWords : w[1] = l)[2]
    ELSE "Ident"

\* The length of the maximal run of letters, digits and '_' from offset 0.
IdentRunLen ==
    CHOOSE n \in 0..Len(src) :
        /\ \A k \in 1..n : src[k] \in {"a", "o", "r", "_", "0", "1", "2"}
        /\ n < Len(src) => src[n + 1] \notin {"a", "o", "r", "_", "0", "1", "2"}

\* C9: from a source that begins with a letter or '_', scan returns as its
\* first token the maximal run of letters, digits and '_', of the matching
\* keyword kind or else Ident, with no error for the run.
C9_IdentifierScanned ==
    (pc = "done" /\ src # <<>> /\ src[1] \in {"a", "o", "r", "_"}) =>
        /\ tokens[1].lexeme = SubSeq(src, 1, IdentRunLen)
        /\ tokens[1].typ.tag = IdentKind(tokens[1].lexeme)
        /\ IdentRunLen = Len(src) => (Len(tokens) = 2 /\ errors = <<>>)

\* The punctuation characters with their kinds.
C10_Kinds ==
    {<<"(", "LParen">>, <<")", "RParen">>, <<"{", "LBrace">>, <<"}", "RBrace">>,
     <<",", "Comma">>, <<".", "Dot">>, <<"-", "Minus">>, <<"+", "Plus">>,
     <<";", "Semicolon">>, <<"*", "Star">>}

\* C10: from a source that is one punctuation character, scan returns two
\* tokens, one of the character's kind with the character as its lexeme and
\* Eof, and no error.
C10_SinglePunct ==
    \A k \in C10_Kinds :
        (pc = "done" /\ src = <<k[1]>>) =>
            /\ tokens = <<[typ |-> Simple(k[2]), lexeme |-> <<k[1]>>, off |-> 0, line |-> 1],
                          [typ |-> Simple("Eof"), lexeme |-> <<>>, off |-> 1, line |-> 1]>>
            /\ errors = <<>>

\* scan has returned Semicolon and Eof from ";".
C10_Witness ==
    /\ pc = "done"
    /\ src = <<";">>
    /\ Len(tokens) = 2
    /\ tokens[1].typ = Simple("Semicolon")

\* C11: a second scanner, built by Scanner::new for the source the first one
\* scanned, returns the token sequence and leaves the error sequence that
\* the first one did.
C11_SameResult ==
    (pc = "done" /\ returned # <<>>) =>
        /\ tokens = returned[1].tokens
        /\ errors = returned[1].errors

\* Both scanners have returned, each with an error and a token before Eof.
C11_Witness ==
    /\ pc = "done"
    /\ returned # <<>>
    /\ errors # <<>>
    /\ Len(tokens) >= 2

\* C12: 0 <= start <= curr <= len(src) in every state; no step moves curr
\* back or by more than the two bytes of advance and advance_if_match, curr
\* moves only while a byte is unread, and start changes only to the value of
\* curr.
C12_CursorBounds ==
    /\ [](0 <= start /\ start <= curr /\ curr <= Len(src))
    /\ [][/\ curr' \in {curr, curr + 1, curr + 2}
          /\ curr' # curr => curr < Len(src)
          /\ start' = start \/ start' = curr']_vars

\* scan_str has read to the end of the source: start is behind curr, and curr
\* is at len(src).
C12_Witness ==
    /\ pc = "scan_str"
    /\ start < curr
    /\ curr = Len(src)
    /\ Len(src) >= 3

\* C13: in every state line is 1 plus the number of newlines in src[0..curr),
\* and each step adds to line the number of newlines it moves curr over, so
\* line never decreases and other bytes leave it unchanged.
C13_LineCountsNewlines ==
    /\ [](line = 1 + NewlinesIn(0, curr))
    /\ [][/\ line' >= line
          /\ curr' >= curr => line' = line + NewlinesIn(curr, curr')]_vars

\* The scanner is inside a string literal on line 3, after a newline at the
\* top level and one inside the literal.
C13_Witness ==
    /\ pc = "scan_str"
    /\ src[1] = "\n"
    /\ line = 3

\* C14: every token's line is 1 plus the number of newlines in the source up
\* to the end of its lexeme, which is the value of line in the step that
\* pushes it: a String token over several lines has the line of its closing
\* quote, and Eof has 1 plus the number of newlines of the whole source.
C14_TokenLines ==
    /\ [](\A i \in DOMAIN tokens :
             tokens[i].line = 1 + NewlinesIn(0, EndOf(tokens[i])))
    /\ [](pc = "done" => Last(tokens).line = 1 + NewlinesIn(0, Len(src)))
    /\ [][Len(tokens') = Len(tokens) + 1 => Last(tokens').line = line']_vars

\* scan has returned a String token that opens on line 1 and closes on line
\* 2, and a further token on line 2 before Eof.
C14_Witness ==
    /\ pc = "done"
    /\ Len(tokens) = 3
    /\ tokens[1].typ.tag = "Str"
    /\ tokens[1].off = 0
    /\ tokens[1].line = 2
    /\ tokens[2].line = 2

\* C15: curr never decreases; the token a step pushes has the bytes from
\* start before the step to curr after it as its lexeme; the lexemes of the
\* tokens are slices of the source that follow one another in the order of
\* the tokens without overlap, and only Eof's is empty.
C15_SinglePass ==
    /\ [][curr' >= curr]_vars
    /\ [][Len(tokens') = Len(tokens) + 1 =>
             /\ Last(tokens').off = start
             /\ EndOf(Last(tokens')) = curr'
             /\ Last(tokens').lexeme = SubSeq(src, start + 1, curr')]_vars
    /\ [](\A i \in DOMAIN tokens :
             /\ EndOf(tokens[i]) <= Len(src)
             /\ tokens[i].lexeme = SubSeq(src, tokens[i].off + 1, EndOf(tokens[i]))
             /\ tokens[i].typ.tag # "Eof" => tokens[i].lexeme # <<>>
             /\ i > 1 => tokens[i].off >= EndOf(tokens[i - 1]))

\* scan has returned three tokens and Eof, with a byte of no token between
\* the first two.
C15_Witness ==
    /\ pc = "done"
    /\ Len(tokens) = 4
    /\ tokens[2].off > EndOf(tokens[1])

NoAdjacentSlashes == \A i \in 1..(Len(src) - 1) : ~(src[i] = "/" /\ src[i + 1] = "/")

\* C16: a scan of a source without two adjacent '/' returns, Scanner::advance
\* has returned a byte at most len(src) times, and at the return start =
\* curr = len(src).
C16_NoCommentTerminates ==
    /\ NoAdjacentSlashes => <>(pc = "done")
    /\ [](NoAdjacentSlashes => (advances <= curr /\ advances <= Len(src)))
    /\ []((NoAdjacentSlashes /\ pc = "done") =>
             (start = Len(src) /\ curr = Len(src)))

\* scan has returned from a source of five bytes, single '/' among them,
\* after fewer calls of advance than bytes.
C16_Witness ==
    /\ pc = "done"
    /\ NoAdjacentSlashes
    /\ Len(src) = 5
    /\ \E i \in DOMAIN src : src[i] = "/"
    /\ advances < Len(src)

\* The bytes an arm of the match of scan names.
C17_Recognized ==
    {"(", ")", "{", "}", ",", ".", "-", "+", ";", "*", "!", "=", "<", ">", "/",
     " ", "\r", "\t", "\n", "\"",
     "0", "1", "2", "3", "4", "5", "6", "7", "8", "9"}

\* C17: at the top level every byte no arm names appends one "Unexpected
\* character." error with the current line and no token, so a source of k
\* such bytes returns k errors and Eof alone; a step inside a string literal
\* appends no error but "Unterminated string."; and the lines of the errors
\* never decrease along the list.
C17_ErrorsPerByte ==
    /\ [][(AtByte /\ src[curr + 1] \notin C17_Recognized) =>
             /\ errors' = Append(errors,
                    [line |-> line, message |-> "Unexpected character."])
             /\ tokens' = tokens
             /\ curr' = curr + 1]_vars
    /\ [][pc = "scan_str" =>
             \/ errors' = errors
             \/ errors' = Append(errors,
                    [line |-> line, message |-> "Unterminated string."])]_vars
    /\ []((pc = "done" /\ \A i \in DOMAIN src : src[i] \notin C17_Recognized) =>
             (Len(errors) = Len(src) /\ Len(tokens) = 1))
    /\ [](\A i \in 1..(Len(errors) - 1) : errors[i].line <= errors[i + 1].line)

\* scan has returned two errors and Eof alone from the two bytes of one
\* UTF-8 character.
C17_Witness ==
    /\ pc = "done"
    /\ src = <<"0xC3", "0xA9">>
    /\ Len(errors) = 2
    /\ Len(tokens) = 1

====
